---- MODULE Spec2Model ----
(***************************************************************************)
(* Model of the combined proctoring analysis of ai-module/main.py:         *)
(* POST /api/proctor/analyze (full_proctor_analyze) hands                  *)
(* _sync_full_proctor_analyze to the event loop's default executor.        *)
(* POST /train (_sync_train) and POST /process-material                    *)
(* (_sync_process_material) run in threads of the same executor and are    *)
(* modelled with the files and the dictionary they share.                  *)
(*                                                                         *)
(* Units.  Angles returned by cv2.RQDecomp3x3 are carried as integers in   *)
(* 1/36000 of a degree, head-pose angles (after "* 360" and round(., 1))   *)
(* as integers in tenths of a degree.  Detection confidences are carried   *)
(* in 1/10000.  Landmark distances (math.dist) are carried as integers.    *)
(***************************************************************************)
EXTENDS Integers, Sequences, FiniteSets, TLC

VARIABLES
    calls,        \* request id (in order of arrival) -> the request, the locals
                  \* of its analysis and its outcome
    work_queue,   \* the default executor's queue of submitted, not yet started work
    trainings,    \* the calls of POST /train, in order of arrival
    metadata_file,   \* models/metadata.json: None while it does not exist
    model_files,  \* models/: path -> the model dumped there (the id of its training)
    materials,    \* the calls of POST /process-material, in order of arrival
    indices       \* the module-level dict: courseId -> [index, chunks]

mlVars == <<trainings, metadata_file, model_files>>

ragVars == <<materials, indices>>

proctorVars == <<calls, work_queue>>

vars == <<calls, work_queue, trainings, metadata_file, model_files, materials, indices>>

(***************************************************************************)
(* Bounds of the model.                                                    *)
(***************************************************************************)
MaxRequests == 3      \* requests posted in one run of the pool specification
MaxWorkers == 2       \* threads of the default executor
MaxFaces == 2         \* largest face count the detector reports
MaxObjs == 2          \* largest number of boxes YOLO returns for one frame

(***************************************************************************)
(* Python values.                                                          *)
(***************************************************************************)
None == [none |-> TRUE]

Abs(n) == IF n < 0 THEN -n ELSE n

\* round-half-even of n / d (d > 0), the rounding of round() and of format()
RoundHalfEven(n, d) ==
    LET m == Abs(n)
        q == m \div d
        r == m % d
        up == IF 2 * r > d THEN 1
              ELSE IF 2 * r < d THEN 0
              ELSE IF q % 2 = 0 THEN 0 ELSE 1
    IN  IF n < 0 THEN -(q + up) ELSE q + up

\* f"{x:.0f}" of an angle held in tenths of a degree
Fmt0f(t) == (IF t < 0 THEN "-" ELSE "") \o ToString(Abs(RoundHalfEven(t, 10)))

\* f"{conf:.0%}" of a confidence held in 1/10000
FmtPercent(conf) == ToString(RoundHalfEven(conf, 100)) \o "%"

(***************************************************************************)
(* SUSPICIOUS_OBJECTS: COCO class id -> label.                             *)
(***************************************************************************)
SUSPICIOUS_OBJECTS ==
    (67 :> "cell phone") @@ (73 :> "book") @@ (63 :> "laptop") @@
    (65 :> "remote") @@ (74 :> "clock") @@ (0 :> "person")

(***************************************************************************)
(* estimate_head_pose.  The landmark set carries the outcome of            *)
(* cv2.solvePnP / Rodrigues / RQDecomp3x3 on its six key points: "ok",     *)
(* "noconv" (solvePnP returns retval False, which line 621 discards, and   *)
(* the rotation it leaves behind is decomposed all the same) or "raise"    *)
(* (cv2.error).  angles = <<x, y, z>> of RQDecomp3x3.                      *)
(***************************************************************************)
SolveRaises(landmarks) == landmarks.solve = "raise"

Scale360(a) == RoundHalfEven(a * 360 * 10, 36000)

estimate_head_pose(landmarks) ==
    [yaw   |-> Scale360(landmarks.angles[2]),
     pitch |-> Scale360(landmarks.angles[1]),
     roll  |-> Scale360(landmarks.angles[3])]

(***************************************************************************)
(* detect_eyes_closed.  An eye is <<v1, v2, h>>, the three landmark        *)
(* distances; ear = (v1 + v2) / (2 h) if h > 0 else 0, kept as the         *)
(* fraction <<numerator, denominator>>.                                    *)
(***************************************************************************)
ear(eye) ==
    IF eye[3] > 0 THEN <<eye[1] + eye[2], 2 * eye[3]>> ELSE <<0, 1>>

\* faulty variant: the threshold taken as "at most 0.18"
detect_eyes_closed_inclusive(landmarks) ==
    LET l == ear(landmarks.left_eye)
        r == ear(landmarks.right_eye)
    IN  100 * (l[1] * r[2] + r[1] * l[2]) <= 18 * 2 * l[2] * r[2]

\* avg_ear = (left_ear + right_ear) / 2.0 ;  avg_ear < 0.18
detect_eyes_closed(landmarks) ==
    LET l == ear(landmarks.left_eye)
        r == ear(landmarks.right_eye)
    IN  100 * (l[1] * r[2] + r[1] * l[2]) < 18 * 2 * l[2] * r[2]

(***************************************************************************)
(* Violation events of _sync_full_proctor_analyze.                         *)
(***************************************************************************)
NoFaceViolation ==
    [type |-> "NO_FACE", details |-> "No face detected", weight |-> 1]

MultipleFacesViolation(face_count) ==
    [type |-> "MULTIPLE_FACES",
     details |-> ToString(face_count) \o " faces detected",
     weight |-> 2]

LookingAwayViolation(looking_direction, yaw, pitch) ==
    [type |-> "LOOKING_AWAY",
     details |-> "Looking " \o looking_direction \o " (yaw=" \o Fmt0f(yaw)
                 \o ", pitch=" \o Fmt0f(pitch) \o ")",
     weight |-> 1]

ObjectWeight(label) == IF label = "cell phone" THEN 3 ELSE 2

CheatingObjectViolation(label, conf) ==
    [type |-> "CHEATING_OBJECT",
     details |-> "Detected: " \o label \o " (" \o FmtPercent(conf) \o ")",
     weight |-> ObjectWeight(label)]

\* faulty variant: "several faces" starting at three
FaceGateFromThree(face_count) ==
    IF face_count = 0 THEN <<NoFaceViolation>>
    ELSE IF face_count > 2 THEN <<MultipleFacesViolation(face_count)>>
    ELSE <<>>

(***************************************************************************)
(* The face branch (lines 784-787): the events the face count appends.     *)
(***************************************************************************)
FaceGate(face_count) ==
    IF face_count = 0 THEN <<NoFaceViolation>>
    ELSE IF face_count > 1 THEN <<MultipleFacesViolation(face_count)>>
    ELSE <<>>

\* faulty variant: the thresholds themselves counted as deviating
ClassifyPoseInclusive(yaw, pitch) ==
    LET afterYaw ==
            IF yaw <= -150 THEN [looking_direction |-> "left", looking_away |-> TRUE]
            ELSE IF yaw >= 150 THEN [looking_direction |-> "right", looking_away |-> TRUE]
            ELSE [looking_direction |-> "center", looking_away |-> FALSE]
    IN  IF pitch <= -150 THEN [looking_direction |-> "down", looking_away |-> TRUE]
        ELSE IF pitch >= 200 THEN [looking_direction |-> "up", looking_away |-> TRUE]
        ELSE afterYaw

(***************************************************************************)
(* The direction rules (lines 797-810): the yaw if/elif, then the pitch    *)
(* if/elif assigning over it.  Angles in tenths of a degree.               *)
(***************************************************************************)
ClassifyPose(yaw, pitch) ==
    LET afterYaw ==
            IF yaw < -150 THEN [looking_direction |-> "left", looking_away |-> TRUE]
            ELSE IF yaw > 150 THEN [looking_direction |-> "right", looking_away |-> TRUE]
            ELSE [looking_direction |-> "center", looking_away |-> FALSE]
    IN  IF pitch < -150 THEN [looking_direction |-> "down", looking_away |-> TRUE]
        ELSE IF pitch > 200 THEN [looking_direction |-> "up", looking_away |-> TRUE]
        ELSE afterYaw

\* lines 812-817: the events the pose appends
PoseViolations(looking_away, looking_direction, yaw, pitch) ==
    IF looking_away THEN <<LookingAwayViolation(looking_direction, yaw, pitch)>>
    ELSE <<>>

(***************************************************************************)
(* The detection loop (lines 831-851) over the boxes YOLO returned, in     *)
(* order.  A box is [cls, conf, bbox].                                     *)
(***************************************************************************)
DetectedObject(label, conf, bbox) ==
    [label |-> label, confidence |-> RoundHalfEven(conf, 10), bbox |-> bbox]

\* faulty variant: the SUSPICIOUS_OBJECTS test made before the person test
DetectBoxListedFirst(box, acc) ==
    IF box.cls \in DOMAIN SUSPICIOUS_OBJECTS
    THEN LET label == SUSPICIOUS_OBJECTS[box.cls]
         IN  [acc EXCEPT
                !.suspicious = Append(@, DetectedObject(label, box.conf, box.bbox)),
                !.violations = Append(@, CheatingObjectViolation(label, box.conf))]
    ELSE IF box.cls = 0
    THEN [acc EXCEPT !.person_count = @ + 1]
    ELSE acc

\* faulty variant: a label already reported in this frame is not reported again
DetectBoxDedup(box, acc) ==
    IF box.cls = 0
    THEN [acc EXCEPT !.person_count = @ + 1]
    ELSE IF box.cls \in DOMAIN SUSPICIOUS_OBJECTS
    THEN LET label == SUSPICIOUS_OBJECTS[box.cls]
         IN  IF \E i \in DOMAIN acc.suspicious : acc.suspicious[i].label = label
             THEN acc
             ELSE [acc EXCEPT
                     !.suspicious = Append(@, DetectedObject(label, box.conf, box.bbox)),
                     !.violations = Append(@, CheatingObjectViolation(label, box.conf))]
    ELSE acc

DetectBox(box, acc) ==
    IF box.cls = 0
    THEN [acc EXCEPT !.person_count = @ + 1]
    ELSE IF box.cls \in DOMAIN SUSPICIOUS_OBJECTS
    THEN LET label == SUSPICIOUS_OBJECTS[box.cls]
         IN  [acc EXCEPT
                !.suspicious = Append(@, DetectedObject(label, box.conf, box.bbox)),
                !.violations = Append(@, CheatingObjectViolation(label, box.conf))]
    ELSE acc

RECURSIVE DetectionLoop(_, _)
DetectionLoop(boxes, acc) ==
    IF boxes = <<>> THEN acc
    ELSE DetectionLoop(Tail(boxes), DetectBox(Head(boxes), acc))

\* faulty variant: the opt-out ignored
RunsYoloAlways(run_object_detection) == TRUE

\* line 822: whether the YOLO model is called for this request
RunsYolo(run_object_detection) == run_object_detection

\* line 853: sum(v["weight"] for v in violations)
RECURSIVE TotalWeight(_)
TotalWeight(violations) ==
    IF violations = <<>> THEN 0
    ELSE Head(violations).weight + TotalWeight(Tail(violations))

\* faulty variant: the total taken over the events gathered before object detection
FullProctorResponseEarlyTotal(c, suspicious, person_count, violations) ==
    [face_count |-> c.face_count,
     head_pose |-> c.head_pose,
     looking_away |-> c.looking_away,
     looking_direction |-> c.looking_direction,
     eyes_closed |-> c.eyes_closed,
     suspicious_objects |-> suspicious,
     person_count |-> person_count,
     violations |-> violations,
     total_violation_weight |-> TotalWeight(c.violations)]

\* lines 855-865
FullProctorResponse(c, suspicious, person_count, violations) ==
    [face_count |-> c.face_count,
     head_pose |-> c.head_pose,
     looking_away |-> c.looking_away,
     looking_direction |-> c.looking_direction,
     eyes_closed |-> c.eyes_closed,
     suspicious_objects |-> suspicious,
     person_count |-> person_count,
     violations |-> violations,
     total_violation_weight |-> TotalWeight(violations)]

(***************************************************************************)
(* Inputs.  A frame is what the three capabilities report for an image:    *)
(* faces (face_detector), landmarks (face_mesh: None, or a landmark set)   *)
(* and boxes (yolo_model).                                                 *)
(***************************************************************************)
Boxes ==
    { [cls |-> 0,  conf |-> 9100, bbox |-> <<0, 0, 40, 90>>],
      [cls |-> 67, conf |-> 9000, bbox |-> <<10, 50, 20, 70>>],
      [cls |-> 73, conf |-> 7256, bbox |-> <<30, 60, 60, 80>>],
      [cls |-> 63, conf |-> 8005, bbox |-> <<5, 40, 70, 85>>],
      [cls |-> 65, conf |-> 6500, bbox |-> <<50, 70, 58, 76>>],
      [cls |-> 74, conf |-> 6115, bbox |-> <<80, 5, 95, 20>>],
      [cls |-> 16, conf |-> 8800, bbox |-> <<60, 60, 90, 90>>] }

RECURSIVE SeqsUpTo(_, _)
SeqsUpTo(S, n) ==
    IF n = 0 THEN {<<>>}
    ELSE LET shorter == SeqsUpTo(S, n - 1)
         IN  shorter \cup {Append(q, x) : q \in shorter, x \in S}

BoxLists == SeqsUpTo(Boxes, MaxObjs)

\* RQDecomp3x3 angles around the thresholds: 15.04 and 15.06 degrees after
\* the scaling, 20.04 and 20.06, and their negatives
YawAngles == {-1506, -1504, 0, 1504, 1506}
PitchAngles == {-1506, -1504, 0, 2004, 2006}

\* <<left_eye, right_eye>>: ears 0.17/0.17, 0.10/0.26 (average 0.18), and
\* an eye of zero width beside an open one
EyePairs ==
    { << <<17, 17, 100>>, <<17, 17, 100>> >>,
      << <<10, 10, 100>>, <<26, 26, 100>> >>,
      << <<3, 3, 0>>, <<35, 35, 100>> >> }

LandmarkSet(solve, x, y, eyes) ==
    [solve |-> solve, angles |-> <<x, y, 12>>,
     left_eye |-> eyes[1], right_eye |-> eyes[2]]

Landmarks ==
    { LandmarkSet("ok", x, y, e) : x \in PitchAngles, y \in YawAngles, e \in EyePairs }
    \cup { LandmarkSet("noconv", 0, 3000, e) : e \in EyePairs }
    \cup { LandmarkSet("raise", 0, 0, e) : e \in {<< <<17, 17, 100>>, <<17, 17, 100>> >>} }

Frame(faces, landmarks, boxes) ==
    [faces |-> faces, landmarks |-> landmarks, boxes |-> boxes]

\* every frame of the bounded input space
\* (face_mesh has its own detector: what it would report does not follow
\* from the face count)
AllFrames ==
    { Frame(n, l, b) : n \in (0..MaxFaces) \ {1},
                       l \in {None, LandmarkSet("ok", 2006, 1506,
                                     << <<17, 17, 100>>, <<17, 17, 100>> >>)},
                       b \in BoxLists }
    \cup { Frame(1, l, b) : l \in Landmarks \cup {None}, b \in BoxLists }

\* the frames the sessions of the pool specification send
PoolFrames ==
    { Frame(0, None, << [cls |-> 67, conf |-> 9000, bbox |-> <<10, 50, 20, 70>>] >>),
      Frame(2, None, << >>),
      Frame(1, LandmarkSet("ok", 0, -1506, << <<17, 17, 100>>, <<17, 17, 100>> >>),
            << [cls |-> 0,  conf |-> 9100, bbox |-> <<0, 0, 40, 90>>],
               [cls |-> 73, conf |-> 7256, bbox |-> <<30, 60, 60, 80>>] >>),
      Frame(1, LandmarkSet("raise", 0, 0, << <<17, 17, 100>>, <<17, 17, 100>> >>),
            << >>) }

\* the capabilities: what each reports for a frame
face_detector(frame) == frame.faces
face_mesh(frame) == frame.landmarks
yolo_model(frame) == frame.boxes

\* confidence_threshold (line 746), in 1/10000: the default 0.6, the ends of
\* [0, 1] and a value beyond either end
DefaultThreshold == 6000

Thresholds == {-1000, 0, DefaultThreshold, 10000, 15000}

InUnitInterval(confidence_threshold) == confidence_threshold \in 0..10000

\* yolo_model(..., conf=confidence_threshold): nothing in the module tells
\* what the model does with a conf outside [0, 1]; it may raise or answer
YoloOutcomes(confidence_threshold) ==
    IF InUnitInterval(confidence_threshold) THEN {"boxes"} ELSE {"boxes", "raise"}

(***************************************************************************)
(* A call of POST /api/proctor/analyze.  pc:                               *)
(*   "queued"   handed to the executor, not yet started                    *)
(*   "mesh"     in a worker thread, face count taken, one face             *)
(*   "objects"  in a worker thread, before line 819                        *)
(*   "returned" / "raised"  the worker is done, the handler not yet resumed*)
(*                          (error: what raised)                           *)
(*   "ok200" / "err500"     answered                                       *)
(***************************************************************************)
\* faulty variant: one violations list kept at module level and shared by the calls
SharedLocals ==
    LET done == {r \in DOMAIN calls : calls[r].response # None}
        last == CHOOSE r \in done : \A q \in done : q <= r
    IN  [violations |-> IF done = {} THEN <<>> ELSE calls[last].violations,
         head_pose |-> None,
         looking_away |-> FALSE,
         looking_direction |-> "none",
         eyes_closed |-> FALSE]

\* lines 774 and 779-782: the locals every analysis starts from
FreshLocals ==
    [violations |-> <<>>,
     head_pose |-> None,
     looking_away |-> FALSE,
     looking_direction |-> "none",
     eyes_closed |-> FALSE]

\* FullProctorRequest (lines 743-746) and the call's bookkeeping; face_calls,
\* mesh_calls and yolo_calls count the capability invocations made for it
NewCall(image, run_object_detection, confidence_threshold) ==
    [pc |-> "queued",
     image |-> image,
     run_object_detection |-> run_object_detection,
     confidence_threshold |-> confidence_threshold,
     face_calls |-> 0,
     mesh_calls |-> 0,
     error |-> "none",
     face_count |-> 0,
     head_pose |-> None,
     looking_away |-> FALSE,
     looking_direction |-> "none",
     eyes_closed |-> FALSE,
     violations |-> <<>>,
     yolo_calls |-> 0,
     response |-> None]

Ids == DOMAIN calls

InFlight == {r \in Ids : calls[r].pc \in {"mesh", "objects"}}

\* faulty variant: a thread of its own for every request
ThreadPerRequest == TRUE

\* the executor starts queued work only on an idle thread of its pool
HasIdleWorker == Cardinality(InFlight) < MaxWorkers

\* the executor takes work from the front of its queue
NextWork == Head(work_queue)

Init ==
    /\ calls = <<>>
    /\ work_queue = <<>>
    /\ trainings = <<>>
    /\ metadata_file = None
    /\ model_files = <<>>
    /\ materials = <<>>
    /\ indices = <<>>

(***************************************************************************)
(* full_proctor_analyze up to its await: the request is handed to the      *)
(* executor and the event loop is free again.                              *)
(***************************************************************************)
Post(frames, thresholds, limit) ==
    /\ Len(calls) < limit
    /\ \E image \in frames, run_object_detection \in BOOLEAN,
          confidence_threshold \in thresholds :
          calls' = Append(calls, NewCall(image, run_object_detection,
                                         confidence_threshold))
    /\ work_queue' = Append(work_queue, Len(calls) + 1)
    /\ UNCHANGED <<mlVars, ragVars>>

Submit == Post(PoolFrames, {DefaultThreshold}, MaxRequests)

SubmitFrame == Post(AllFrames, {DefaultThreshold}, 1)

\* one call, its confidence_threshold any of Thresholds
SubmitThreshold == Post(PoolFrames, Thresholds, 1)

(***************************************************************************)
(* A worker thread starts _sync_full_proctor_analyze: lines 766-787.       *)
(***************************************************************************)
FaceCheck(r) ==
    /\ work_queue # <<>>
    /\ r = NextWork
    /\ HasIdleWorker
    /\ work_queue' = Tail(work_queue)
    /\ UNCHANGED <<mlVars, ragVars>>
    /\ LET face_count == face_detector(calls[r].image)
           locals == FreshLocals
       IN  calls' = [calls EXCEPT ![r] =
              [@ EXCEPT !.face_count = face_count,
                        !.face_calls = @ + 1,
                        !.head_pose = locals.head_pose,
                        !.looking_away = locals.looking_away,
                        !.looking_direction = locals.looking_direction,
                        !.eyes_closed = locals.eyes_closed,
                        !.violations = locals.violations \o FaceGate(face_count),
                        !.pc = IF face_count = 1 THEN "mesh" ELSE "objects"]]

(***************************************************************************)
(* Lines 789-817: landmarks, head pose, eye state, direction.              *)
(***************************************************************************)
PoseEyeCheck(r) ==
    /\ r \in Ids
    /\ calls[r].pc = "mesh"
    /\ UNCHANGED <<work_queue, mlVars, ragVars>>
    /\ LET landmarks == face_mesh(calls[r].image)
       IN  IF landmarks = None
           THEN calls' = [calls EXCEPT ![r].pc = "objects", ![r].mesh_calls = @ + 1]
           ELSE IF SolveRaises(landmarks)
           THEN calls' = [calls EXCEPT ![r].pc = "raised", ![r].mesh_calls = @ + 1,
                                       ![r].error = "solvePnP"]
           ELSE LET head_pose == estimate_head_pose(landmarks)
                    eyes_closed == detect_eyes_closed(landmarks)
                    yaw == head_pose.yaw
                    pitch == head_pose.pitch
                    dir == ClassifyPose(yaw, pitch)
                IN  calls' = [calls EXCEPT ![r] =
                       [@ EXCEPT
                          !.mesh_calls = @ + 1,
                          !.head_pose = head_pose,
                          !.eyes_closed = eyes_closed,
                          !.looking_direction = dir.looking_direction,
                          !.looking_away = dir.looking_away,
                          !.violations = @ \o PoseViolations(dir.looking_away,
                                              dir.looking_direction, yaw, pitch),
                          !.pc = "objects"]]

(***************************************************************************)
(* Lines 819-865: optional object detection, total weight, the response.   *)
(***************************************************************************)
ObjectCheck(r) ==
    /\ r \in Ids
    /\ calls[r].pc = "objects"
    /\ UNCHANGED <<work_queue, mlVars, ragVars>>
    /\ LET c == calls[r]
           start == [suspicious |-> <<>>, person_count |-> 0,
                     violations |-> c.violations]
           runs == RunsYolo(c.run_object_detection)
           acc == IF runs THEN DetectionLoop(yolo_model(c.image), start) ELSE start
       IN  \E outcome \in IF runs THEN YoloOutcomes(c.confidence_threshold)
                                  ELSE {"boxes"} :
              IF outcome = "raise"
              THEN calls' = [calls EXCEPT ![r].pc = "raised", ![r].yolo_calls = @ + 1,
                                          ![r].error = "yolo_model"]
              ELSE calls' = [calls EXCEPT ![r] =
                     [@ EXCEPT
                        !.violations = acc.violations,
                        !.yolo_calls = IF runs THEN @ + 1 ELSE @,
                        !.response = FullProctorResponse(c, acc.suspicious,
                                                         acc.person_count,
                                                         acc.violations),
                        !.pc = "returned"]]

(***************************************************************************)
(* full_proctor_analyze after its await (lines 872-878): the response, or  *)
(* HTTPException(500) for whatever the worker raised.                      *)
(***************************************************************************)
\* faulty variant: the exception swallowed and an answer sent all the same
RespondSwallows(r) ==
    /\ r \in Ids
    /\ calls[r].pc \in {"returned", "raised"}
    /\ UNCHANGED <<work_queue, mlVars, ragVars>>
    /\ calls' = [calls EXCEPT ![r].pc = "ok200"]

Respond(r) ==
    /\ r \in Ids
    /\ calls[r].pc \in {"returned", "raised"}
    /\ UNCHANGED <<work_queue, mlVars, ragVars>>
    /\ calls' = [calls EXCEPT ![r].pc =
                    IF calls[r].pc = "returned" THEN "ok200" ELSE "err500"]

(***************************************************************************)
(* A capability call raising in the middle of an analysis: face_detector   *)
(* (line 776) as the worker starts the call, face_mesh (line 789) or       *)
(* yolo_model (line 823).  The exception leaves _sync_full_proctor_analyze *)
(* and the worker thread goes back to the pool.                            *)
(***************************************************************************)
InferenceError(r) ==
    \/ /\ work_queue # <<>>
       /\ r = NextWork
       /\ HasIdleWorker
       /\ work_queue' = Tail(work_queue)
       /\ UNCHANGED <<mlVars, ragVars>>
       /\ calls' = [calls EXCEPT ![r].pc = "raised", ![r].face_calls = @ + 1,
                                 ![r].error = "face_detector"]
    \/ /\ r \in Ids
       /\ calls[r].pc = "mesh"
       /\ UNCHANGED <<work_queue, mlVars, ragVars>>
       /\ calls' = [calls EXCEPT ![r].pc = "raised", ![r].mesh_calls = @ + 1,
                                 ![r].error = "face_mesh"]
    \/ /\ r \in Ids
       /\ calls[r].pc = "objects"
       /\ RunsYolo(calls[r].run_object_detection)
       /\ UNCHANGED <<work_queue, mlVars, ragVars>>
       /\ calls' = [calls EXCEPT ![r].pc = "raised", ![r].yolo_calls = @ + 1,
                                 ![r].error = "yolo_model"]

Next ==
    \/ Submit
    \/ \E r \in Ids : FaceCheck(r)
    \/ \E r \in Ids : PoseEyeCheck(r)
    \/ \E r \in Ids : ObjectCheck(r)
    \/ \E r \in Ids : Respond(r)

\* any number of sessions posting frames of PoolFrames
Spec == Init /\ [][Next]_vars

NextFrame ==
    \/ SubmitFrame
    \/ \E r \in Ids : FaceCheck(r)
    \/ \E r \in Ids : PoseEyeCheck(r)
    \/ \E r \in Ids : ObjectCheck(r)
    \/ \E r \in Ids : Respond(r)

\* one call, on any frame of AllFrames
SpecFrame == Init /\ [][NextFrame]_vars

\* the frames of the sessions when capabilities may fail
FaultFrames == {f \in PoolFrames : f.faces < 2 /\ f.boxes # <<>>}

SubmitFaulty == Post(FaultFrames, {DefaultThreshold}, MaxRequests)

NextFaults ==
    \/ SubmitFaulty
    \/ \E r \in Ids : FaceCheck(r)
    \/ \E r \in Ids : PoseEyeCheck(r)
    \/ \E r \in Ids : ObjectCheck(r)
    \/ \E r \in Ids : Respond(r)
    \/ \E r \in Ids : InferenceError(r)

\* any number of sessions, any capability call failing
SpecFaults == Init /\ [][NextFaults]_vars

NextThreshold ==
    \/ SubmitThreshold
    \/ \E r \in Ids : FaceCheck(r)
    \/ \E r \in Ids : PoseEyeCheck(r)
    \/ \E r \in Ids : ObjectCheck(r)
    \/ \E r \in Ids : Respond(r)

\* one call, with any confidence_threshold of Thresholds
SpecThreshold == Init /\ [][NextThreshold]_vars

(***************************************************************************)
(* Vocabulary of the properties.                                           *)
(***************************************************************************)
Produced == {r \in Ids : calls[r].response # None}

Result(r) == calls[r].response

EventsOfType(violations, type) == SelectSeq(violations, LAMBDA v : v.type = type)

DisallowedClasses == {67, 73, 63, 65, 74}

DisallowedBoxes(frame) ==
    SelectSeq(frame.boxes, LAMBDA b : b.cls \in DisallowedClasses)

IsFaceEvent(v, face_count) ==
    IF face_count = 0 THEN v.type = "NO_FACE" /\ v.weight = 1
    ELSE v.type = "MULTIPLE_FACES" /\ v.weight = 2

\* the weights of a list added up from its last event backwards
RECURSIVE WeightOfFirst(_, _)
WeightOfFirst(violations, n) ==
    IF n = 0 THEN 0 ELSE WeightOfFirst(violations, n - 1) + violations[n].weight

\* average eye-aspect-ratio strictly below 0.18, on the landmark distances
EarBelowThreshold(landmarks) ==
    LET half(eye) == IF eye[3] > 0 THEN <<eye[1] + eye[2], 4 * eye[3]>> ELSE <<0, 1>>
        l == half(landmarks.left_eye)
        r == half(landmarks.right_eye)
    IN  50 * (l[1] * r[2] + r[1] * l[2]) < 9 * l[2] * r[2]

(***************************************************************************)
(* C1.  In every result of the combined analysis, total_violation_weight   *)
(* is the sum of the weights of the events in its violations list, and it  *)
(* is 0 exactly when that list is empty.                                   *)
(***************************************************************************)
C1_TotalIsSumOfWeights ==
    \A r \in Produced :
        /\ Result(r).total_violation_weight
              = WeightOfFirst(Result(r).violations, Len(Result(r).violations))
        /\ (Result(r).total_violation_weight = 0) <=> (Result(r).violations = <<>>)

\* a result with a face event and two object events, total 2 + 3 + 2
C1_Witness ==
    \E r \in Produced :
        /\ Len(Result(r).violations) = 3
        /\ Result(r).total_violation_weight = 7

(***************************************************************************)
(* C2 as claimed.  When the face count is not one, the violations list of  *)
(* the result is exactly the one face event (NO_FACE of weight 1 for no    *)
(* face, MULTIPLE_FACES of weight 2 for several) and head_pose is absent,  *)
(* whatever run_object_detection and the objects in the frame.             *)
(***************************************************************************)
C2_OnlyTheFaceEvent ==
    \A r \in Produced :
        Result(r).face_count # 1 =>
            /\ Len(Result(r).violations) = 1
            /\ IsFaceEvent(Result(r).violations[1], Result(r).face_count)
            /\ Result(r).head_pose = None

(***************************************************************************)
(* C2 amended.  When the face count is not one, head_pose is absent and    *)
(* the violations list starts with the one face event; nothing follows it  *)
(* when run_object_detection is false, and when it is true exactly one     *)
(* CHEATING_OBJECT event per disallowed-object detection follows it.       *)
(***************************************************************************)
C2_FaceEventThenObjects ==
    \A r \in Produced :
        Result(r).face_count # 1 =>
            LET v == Result(r).violations
                k == IF calls[r].run_object_detection
                     THEN Len(DisallowedBoxes(calls[r].image)) ELSE 0
            IN  /\ Result(r).head_pose = None
                /\ Len(v) = 1 + k
                /\ IsFaceEvent(v[1], Result(r).face_count)
                /\ \A i \in 2..Len(v) : v[i].type = "CHEATING_OBJECT"

\* no face, object detection on, two disallowed objects in the frame
C2_Witness ==
    \E r \in Produced :
        /\ Result(r).face_count = 0
        /\ calls[r].run_object_detection
        /\ Len(Result(r).violations) = 3

(***************************************************************************)
(* C3 as claimed.  head_pose and the eye state are populated if and only   *)
(* if exactly one face was detected: one face gives a head_pose and an     *)
(* eyes_closed computed from the landmarks, any other count gives no       *)
(* head_pose and eyes_closed false - also when face_mesh finds no landmark *)
(* set for the one face.                                                   *)
(***************************************************************************)
C3_PoseIffOneFace ==
    \A r \in Produced :
        IF Result(r).face_count = 1
        THEN /\ Result(r).head_pose # None
             /\ calls[r].image.landmarks # None
             /\ Result(r).eyes_closed = EarBelowThreshold(calls[r].image.landmarks)
        ELSE /\ Result(r).head_pose = None
             /\ Result(r).eyes_closed = FALSE

(***************************************************************************)
(* C3 amended.  head_pose is present if and only if exactly one face was   *)
(* detected and face_mesh returned a landmark set for it; eyes_closed is   *)
(* then computed from those landmarks, and otherwise head_pose is absent   *)
(* and eyes_closed is false.                                               *)
(***************************************************************************)
C3_PoseIffOneFaceWithLandmarks ==
    \A r \in Produced :
        IF Result(r).face_count = 1 /\ calls[r].image.landmarks # None
        THEN /\ Result(r).head_pose # None
             /\ Result(r).eyes_closed = EarBelowThreshold(calls[r].image.landmarks)
        ELSE /\ Result(r).head_pose = None
             /\ Result(r).eyes_closed = FALSE

\* one face, no landmark set: a result without head_pose
C3_Witness ==
    \E r \in Produced :
        /\ Result(r).face_count = 1
        /\ calls[r].image.landmarks = None
        /\ Result(r).head_pose = None

(***************************************************************************)
(* C4.  A result of a call with run_object_detection=false has no          *)
(* suspicious_objects, person_count 0 and no CHEATING_OBJECT event, the    *)
(* YOLO model was not called for it, and its face, pose and eye fields are *)
(* those of a call on the same frame with run_object_detection=true.       *)
(***************************************************************************)
FacePoseEyeFields(resp) ==
    <<resp.face_count, resp.head_pose, resp.looking_away,
      resp.looking_direction, resp.eyes_closed>>

C4_NoObjectDetectionWhenOptedOut ==
    \A r \in Produced :
        ~calls[r].run_object_detection =>
            /\ Result(r).suspicious_objects = <<>>
            /\ Result(r).person_count = 0
            /\ EventsOfType(Result(r).violations, "CHEATING_OBJECT") = <<>>
            /\ calls[r].yolo_calls = 0
            /\ \A q \in Produced :
                  (calls[q].image = calls[r].image /\ calls[q].run_object_detection)
                     => FacePoseEyeFields(Result(q)) = FacePoseEyeFields(Result(r))

\* the same frame, holding a person and a book, analysed with and without
\* object detection
C4_Witness ==
    \E r, q \in Produced :
        /\ calls[q].image = calls[r].image
        /\ ~calls[r].run_object_detection
        /\ calls[q].run_object_detection
        /\ Result(q).suspicious_objects # <<>>
        /\ Result(q).person_count = 1
        /\ Result(r).suspicious_objects = <<>>

(***************************************************************************)
(* C5.  In a one-face result, closed eyes without looking away give an     *)
(* EYES_CLOSED event of weight 1; looking away gives a LOOKING_AWAY event  *)
(* of weight 1 and no EYES_CLOSED event; no result holds both.             *)
(***************************************************************************)
HasEvent(violations, type, weight) ==
    \E i \in DOMAIN violations :
        violations[i].type = type /\ violations[i].weight = weight

C5_EyesClosedOrLookingAway ==
    \A r \in Produced :
        Result(r).face_count = 1 =>
            LET v == Result(r).violations
            IN  /\ (Result(r).eyes_closed /\ ~Result(r).looking_away)
                      => HasEvent(v, "EYES_CLOSED", 1)
                /\ Result(r).looking_away
                      => /\ HasEvent(v, "LOOKING_AWAY", 1)
                         /\ EventsOfType(v, "EYES_CLOSED") = <<>>
                /\ ~(/\ EventsOfType(v, "EYES_CLOSED") # <<>>
                     /\ EventsOfType(v, "LOOKING_AWAY") # <<>>)

(***************************************************************************)
(* C6.  For the (yaw, pitch) of a result: pitch < -15 is "down", else      *)
(* pitch > 20 is "up", else yaw < -15 is "left", else yaw > 15 is "right", *)
(* else "center"; looking_away holds exactly when the direction is not     *)
(* "center" (so yaw = -15, yaw = 15, pitch = -15, pitch = 20 do not        *)
(* deviate), and there is one LOOKING_AWAY event, of weight 1, exactly     *)
(* when looking_away holds.                                                *)
(***************************************************************************)
DirectionByPriority(yaw, pitch) ==
    CASE pitch < -150 -> "down"
      [] pitch >= -150 /\ pitch > 200 -> "up"
      [] pitch \in -150..200 /\ yaw < -150 -> "left"
      [] pitch \in -150..200 /\ yaw > 150 -> "right"
      [] OTHER -> "center"

C6_DirectionRules ==
    \A r \in Produced :
        Result(r).head_pose # None =>
            LET yaw == Result(r).head_pose.yaw
                pitch == Result(r).head_pose.pitch
                away == EventsOfType(Result(r).violations, "LOOKING_AWAY")
            IN  /\ Result(r).looking_direction = DirectionByPriority(yaw, pitch)
                /\ Result(r).looking_away <=> (Result(r).looking_direction # "center")
                /\ (yaw \in {-150, 150} /\ pitch \in {-150, 200})
                      => ~Result(r).looking_away
                /\ Len(away) = IF Result(r).looking_away THEN 1 ELSE 0
                /\ \A i \in DOMAIN away : away[i].weight = 1

\* yaw 15.0 and pitch 20.0 (from 15.04 and 20.04): on both thresholds, "center"
C6_Witness ==
    \E r \in Produced :
        /\ Result(r).head_pose # None
        /\ Result(r).head_pose.yaw = 150
        /\ Result(r).head_pose.pitch = 200
        /\ Result(r).looking_direction = "center"

(***************************************************************************)
(* C7.  With object detection on, the CHEATING_OBJECT events of a result   *)
(* are, in order, one per detection of a disallowed class (cell phone,     *)
(* book, laptop, remote, clock), of weight 3 for "cell phone" and 2 for    *)
(* the others; k such detections give k events, same label or not.         *)
(***************************************************************************)
LabelOfClass(cls) ==
    CASE cls = 67 -> "cell phone"
      [] cls = 73 -> "book"
      [] cls = 63 -> "laptop"
      [] cls = 65 -> "remote"
      [] cls = 74 -> "clock"

C7_OneEventPerDisallowedDetection ==
    \A r \in Produced :
        calls[r].run_object_detection =>
            LET hits == DisallowedBoxes(calls[r].image)
                events == EventsOfType(Result(r).violations, "CHEATING_OBJECT")
                objects == Result(r).suspicious_objects
            IN  /\ Len(events) = Len(hits)
                /\ Len(objects) = Len(hits)
                /\ \A i \in DOMAIN hits :
                      /\ objects[i].label = LabelOfClass(hits[i].cls)
                      /\ events[i].weight = IF hits[i].cls = 67 THEN 3 ELSE 2

\* two detections of a cell phone in one frame: two events of weight 3
C7_Witness ==
    \E r \in Produced :
        /\ calls[r].run_object_detection
        /\ Len(calls[r].image.boxes) = 2
        /\ \A i \in 1..2 : calls[r].image.boxes[i].cls = 67
        /\ Len(EventsOfType(Result(r).violations, "CHEATING_OBJECT")) = 2

(***************************************************************************)
(* C8.  When the pose solve fails for a one-face frame the analysis is not *)
(* aborted: it returns a result with head_pose absent, looking_away false  *)
(* and no LOOKING_AWAY event, and object detection, when opted in, still   *)
(* runs and adds its events.                                               *)
(***************************************************************************)
SolveFailed(frame) ==
    /\ frame.faces = 1
    /\ frame.landmarks # None
    /\ frame.landmarks.solve # "ok"

C8_PoseFailureDegrades ==
    \A r \in Ids :
        SolveFailed(calls[r].image) =>
            /\ calls[r].pc \notin {"raised", "err500"}
            /\ r \in Produced =>
                  /\ Result(r).head_pose = None
                  /\ ~Result(r).looking_away
                  /\ EventsOfType(Result(r).violations, "LOOKING_AWAY") = <<>>
                  /\ calls[r].run_object_detection =>
                        /\ calls[r].yolo_calls = 1
                        /\ Len(EventsOfType(Result(r).violations, "CHEATING_OBJECT"))
                              = Len(DisallowedBoxes(calls[r].image))

(***************************************************************************)
(* C9.  At no time are more analyses in flight than the pool has threads;  *)
(* a request arriving while the pool is full waits in the queue, none is   *)
(* rejected or dropped; requests start in their order of arrival; and the  *)
(* endpoint accepts a request whatever the workers are doing.              *)
(***************************************************************************)
C9_BoundedFifoAdmission ==
    /\ Cardinality(InFlight) <= MaxWorkers
    /\ \A r \in Ids :
          (calls[r].pc = "queued") <=> (\E i \in DOMAIN work_queue : work_queue[i] = r)
    /\ \A i, j \in DOMAIN work_queue : i < j => work_queue[i] < work_queue[j]
    /\ \A r, q \in Ids :
          (calls[r].pc = "queued" /\ calls[q].pc # "queued") => q < r
    /\ Len(calls) < MaxRequests => ENABLED Submit

\* every thread of the pool busy and a request waiting in the queue
C9_Witness ==
    /\ Cardinality(InFlight) = MaxWorkers
    /\ work_queue # <<>>

(***************************************************************************)
(* C10.  Two calls on the same frame with run_object_detection=false       *)
(* return identical results, whatever other frames were analysed before,   *)
(* between or along with them.                                             *)
(***************************************************************************)
C10_SameFrameSameResult ==
    \A r, q \in Produced :
        (/\ calls[r].image = calls[q].image
         /\ ~calls[r].run_object_detection
         /\ ~calls[q].run_object_detection)
            => Result(r) = Result(q)

\* the same frame posted first and third, another frame analysed between
C10_Witness ==
    \E r, m, q \in Produced :
        /\ r < m /\ m < q
        /\ calls[r].image = calls[q].image
        /\ calls[m].image # calls[r].image
        /\ ~calls[r].run_object_detection
        /\ ~calls[q].run_object_detection
        /\ Result(m).violations # <<>>
        /\ Result(r).violations # <<>>

(***************************************************************************)
(* C11.  A request whose confidence_threshold lies outside [0, 1] is       *)
(* rejected before any capability is invoked: no face, landmark or object  *)
(* detection runs for it and no result is produced.                        *)
(***************************************************************************)
C11_BadThresholdRejected ==
    \A r \in Ids :
        ~InUnitInterval(calls[r].confidence_threshold) =>
            /\ calls[r].face_calls = 0
            /\ calls[r].mesh_calls = 0
            /\ calls[r].yolo_calls = 0
            /\ calls[r].response = None
            /\ calls[r].pc # "ok200"

(***************************************************************************)
(* C12.  When a capability fails during one call's analysis, that step     *)
(* fails this call alone: every other call, in flight, queued or done, and *)
(* the queue are left as they were; the failed call is answered with       *)
(* status 500 and nothing else; and calls on the same frame and flags that *)
(* do get a result get the same one, whatever failed beside them.          *)
(***************************************************************************)
CapabilityErrors == {"face_detector", "face_mesh", "yolo_model"}

C12_FailureIsolated ==
    [][\A r \in Ids :
          /\ (calls[r].pc # "raised" /\ calls'[r].pc = "raised") =>
                /\ \A q \in Ids \ {r} : calls'[q] = calls[q]
                /\ work_queue' = SelectSeq(work_queue, LAMBDA q : q # r)
                /\ calls'[r].response = None
          /\ calls[r].pc = "raised" => calls'[r].pc \in {"raised", "err500"}
          /\ calls[r].pc = "err500" => calls'[r] = calls[r]
          /\ \A q \in Ids :
                (/\ calls'[r].response # None
                 /\ calls'[q].response # None
                 /\ calls[r].image = calls[q].image
                 /\ calls[r].run_object_detection = calls[q].run_object_detection)
                    => calls'[r].response = calls'[q].response]_vars

\* a call failed by a capability and answered 500, between two calls on one
\* frame that were answered 200
C12_Witness ==
    \E q, r, t \in Ids :
        /\ q < r /\ r < t
        /\ calls[r].pc = "err500"
        /\ calls[r].error \in CapabilityErrors
        /\ calls[q].pc = "ok200"
        /\ calls[t].pc = "ok200"
        /\ calls[q].image = calls[t].image

(***************************************************************************)
(* C13.  Every analysis goes on to DONE and returns a result: a call that  *)
(* a worker has started and that is not yet done can take its next step,   *)
(* no call ends without a result, and in the all-clear case (one face, not *)
(* looking away, eyes open, no disallowed object) the result has an empty  *)
(* violations list and total_violation_weight 0.                           *)
(***************************************************************************)
C13_EveryAnalysisReturnsResult ==
    \A r \in Ids :
        /\ calls[r].pc \in {"mesh", "objects"}
              => ENABLED (PoseEyeCheck(r) \/ ObjectCheck(r))
        /\ calls[r].pc \notin {"raised", "err500"}
        /\ calls[r].pc \in {"returned", "ok200"} => r \in Produced
        /\ (/\ r \in Produced
            /\ Result(r).face_count = 1
            /\ ~Result(r).looking_away
            /\ ~Result(r).eyes_closed
            /\ Result(r).suspicious_objects = <<>>)
              => /\ Result(r).violations = <<>>
                 /\ Result(r).total_violation_weight = 0

(***************************************************************************)
(* C14.  In every result, person_count is the number of person detections *)
(* YOLO returned for the call (none when it was not run); the              *)
(* suspicious_objects are, in order, one per CHEATING_OBJECT event, with   *)
(* the label the event names; a person detection gives neither an entry    *)
(* nor an event; and a person_count above 1 adds no violation.             *)
(***************************************************************************)
PercentOfClass(cls) ==
    CASE cls = 67 -> "90%"
      [] cls = 73 -> "73%"
      [] cls = 63 -> "80%"
      [] cls = 65 -> "65%"
      [] cls = 74 -> "61%"

C14_PersonsCountedObjectsListed ==
    \A r \in Produced :
        LET seen == IF calls[r].run_object_detection
                    THEN calls[r].image.boxes ELSE <<>>
            persons == SelectSeq(seen, LAMBDA b : b.cls = 0)
            hits == SelectSeq(seen, LAMBDA b : b.cls \in DisallowedClasses)
            objects == Result(r).suspicious_objects
            events == EventsOfType(Result(r).violations, "CHEATING_OBJECT")
        IN  /\ Result(r).person_count = Len(persons)
            /\ Len(objects) = Len(events)
            /\ Len(objects) = Len(hits)
            /\ \A i \in DOMAIN objects :
                  /\ objects[i].label # "person"
                  /\ objects[i].bbox = hits[i].bbox
                  /\ events[i].details
                        = "Detected: " \o objects[i].label \o " ("
                             \o PercentOfClass(hits[i].cls) \o ")"
            /\ \A i \in DOMAIN Result(r).violations :
                  Result(r).violations[i].type
                     \in {"NO_FACE", "MULTIPLE_FACES", "LOOKING_AWAY", "CHEATING_OBJECT"}

\* two persons before the camera of a one-face frame: counted, no violation
C14_Witness ==
    \E r \in Produced :
        /\ Result(r).person_count = 2
        /\ Result(r).face_count = 1
        /\ Result(r).suspicious_objects = <<>>
        /\ Result(r).violations = <<>>

(***************************************************************************)
(* POST /train.  train answers 400 to fewer than MinRecords records and    *)
(* otherwise runs _sync_train in a thread of the default executor.  The    *)
(* trainings modelled are at most as many as the executor has threads, so  *)
(* each starts at once; a thread may be preempted between any two          *)
(* statements, and the steps below are cut where _sync_train touches       *)
(* metadata.json and the models directory.                                 *)
(***************************************************************************)
MaxTrainings == 3

MinRecords == 10

\* the request bodies: too few records, enough complete records, and enough
\* records of which some lack exam_result
TrainData ==
    { [records |-> MinRecords - 1, complete |-> TRUE],
      [records |-> MinRecords, complete |-> TRUE],
      [records |-> MinRecords + 2, complete |-> FALSE] }

DefaultMetadata == [current_version |-> "v1", models |-> <<>>]

load_metadata == IF metadata_file = None THEN DefaultMetadata ELSE metadata_file

Version(version_num) == "v" \o ToString(version_num)

ModelPath(version) == "models/model_" \o version \o ".pkl"

VersionNum(metadata) == Cardinality(DOMAIN metadata.models) + 1

\* the entry of metadata["models"]; trained_at and accuracy are left out
ModelInfo(t) ==
    [path |-> trainings[t].model_path, records_used |-> trainings[t].data.records]

NewTraining(data) ==
    [pc |-> "fit", data |-> data, metadata |-> None, version |-> "",
     model_path |-> "", status |-> 0]

TrainIds == DOMAIN trainings

TrainPost ==
    /\ Len(trainings) < MaxTrainings
    /\ \E data \in TrainData :
          trainings' = Append(trainings,
              IF data.records < MinRecords
              THEN [NewTraining(data) EXCEPT !.pc = "raised", !.status = 400]
              ELSE NewTraining(data))
    /\ UNCHANGED <<metadata_file, model_files, proctorVars, ragVars>>

\* lines 183-200: the frame, the null check on exam_result, the fit
TrainFit(t) ==
    /\ t \in TrainIds
    /\ trainings[t].pc = "fit"
    /\ trainings' = IF trainings[t].data.complete
                    THEN [trainings EXCEPT ![t].pc = "load"]
                    ELSE [trainings EXCEPT ![t].pc = "raised", ![t].status = 400]
    /\ UNCHANGED <<metadata_file, model_files, proctorVars, ragVars>>

\* lines 202-206: read the registry, derive the version and the path
TrainLoad(t) ==
    /\ t \in TrainIds
    /\ trainings[t].pc = "load"
    /\ LET metadata == load_metadata
           version == Version(VersionNum(metadata))
       IN  trainings' = [trainings EXCEPT ![t].pc = "dump",
                                          ![t].metadata = metadata,
                                          ![t].version = version,
                                          ![t].model_path = ModelPath(version)]
    /\ UNCHANGED <<metadata_file, model_files, proctorVars, ragVars>>

\* line 208: joblib.dump writes, or overwrites, the file at model_path
TrainDump(t) ==
    /\ t \in TrainIds
    /\ trainings[t].pc = "dump"
    /\ model_files' = (trainings[t].model_path :> t) @@ model_files
    /\ trainings' = [trainings EXCEPT ![t].pc = "save"]
    /\ UNCHANGED <<metadata_file, proctorVars, ragVars>>

\* lines 210-219: update the copy read at line 202 and write it back
TrainSave(t) ==
    /\ t \in TrainIds
    /\ trainings[t].pc = "save"
    /\ LET version == trainings[t].version
           metadata == [current_version |-> version,
                        models |-> (version :> ModelInfo(t))
                                      @@ trainings[t].metadata.models]
       IN  /\ metadata_file' = metadata
           /\ trainings' = [trainings EXCEPT ![t].pc = "returned",
                                              ![t].metadata = metadata,
                                              ![t].status = 200]
    /\ UNCHANGED <<model_files, proctorVars, ragVars>>

NextTrain ==
    \/ TrainPost
    \/ \E t \in 1..MaxTrainings : TrainFit(t)
    \/ \E t \in 1..MaxTrainings : TrainLoad(t)
    \/ \E t \in 1..MaxTrainings : TrainDump(t)
    \/ \E t \in 1..MaxTrainings : TrainSave(t)

SpecTrain == Init /\ [][NextTrain]_vars

Trained == {t \in TrainIds : trainings[t].pc = "returned"}

TrainingsDone == \A t \in TrainIds : trainings[t].pc \in {"returned", "raised"}

\* C15. Once the trainings in flight have all answered, each successful
\* training has a version label and a model file of its own, each is still
\* registered in metadata.json with its own entry, and current_version names
\* a registered version.
C15_EachTrainingKeepsItsVersion ==
    TrainingsDone =>
        LET registry == load_metadata IN
        /\ \A t, u \in Trained :
              t # u => /\ trainings[t].version # trainings[u].version
                       /\ trainings[t].model_path # trainings[u].model_path
        /\ \A t \in Trained :
              /\ trainings[t].version \in DOMAIN registry.models
              /\ registry.models[trainings[t].version] = ModelInfo(t)
              /\ trainings[t].model_path \in DOMAIN model_files
              /\ model_files[trainings[t].model_path] = t
        /\ Trained # {} => registry.current_version \in DOMAIN registry.models

(***************************************************************************)
(* POST /process-material.  process_material runs _sync_process_material   *)
(* in a thread of the default executor; the module-level dict indices is   *)
(* shared by those threads without a lock.  The steps are cut at every     *)
(* statement that reads or writes indices.  index.add on one faiss index   *)
(* from two threads is taken as one step, the reading most favourable to   *)
(* the code.                                                               *)
(***************************************************************************)
MaxMaterials == 2

MaxChunks == 2

Courses == {"c1"}

MaterialIds == {"m1", "m2"}

\* the uploads: a text file of the material with n non-blank pieces
Uploads == [materialId : MaterialIds, pieces : 0..MaxChunks]

\* the generic-text branch: one ChunkData per non-blank piece of 1000 characters
extract_text_from_file(upload) ==
    [i \in 1..upload.pieces |->
        [content |-> upload.materialId \o "-text" \o ToString(i),
         metadata |-> [offset |-> (i - 1) * 1000]]]

\* embed_model.encode: one vector per text, a function of the text
Encode(chunks) == [i \in DOMAIN chunks |-> <<"emb", chunks[i].content>>]

EmptyCourse == [index |-> <<>>, chunks |-> <<>>]

ChunkInfo(materialId, c, global_idx) ==
    [id |-> materialId \o "_" \o ToString(global_idx),
     materialId |-> materialId,
     content |-> c.content,
     metadata |-> c.metadata,
     global_idx |-> global_idx]

NewMaterial(courseId, upload) ==
    [pc |-> "extract", courseId |-> courseId, materialId |-> upload.materialId,
     upload |-> upload, chunks |-> <<>>, start_idx |-> 0, i |-> 0,
     processed_chunks |-> <<>>, message |-> ""]

MaterialCalls == DOMAIN materials

MaterialPost ==
    /\ Len(materials) < MaxMaterials
    /\ \E courseId \in Courses, upload \in Uploads :
          materials' = Append(materials, NewMaterial(courseId, upload))
    /\ UNCHANGED <<indices, proctorVars, mlVars>>

\* lines 374-383: extract, encode, and test whether the course has an entry
MaterialExtract(m) ==
    /\ m \in MaterialCalls
    /\ materials[m].pc = "extract"
    /\ LET chunks == extract_text_from_file(materials[m].upload)
       IN  materials' =
              IF chunks = <<>>
              THEN [materials EXCEPT ![m].pc = "returned",
                                     ![m].message = "No text extracted"]
              ELSE [materials EXCEPT ![m].chunks = chunks,
                                     ![m].pc = IF materials[m].courseId \notin DOMAIN indices
                                               THEN "create" ELSE "start"]
    /\ UNCHANGED <<indices, proctorVars, mlVars>>

\* line 384: the assignment under the test of line 383
MaterialCreate(m) ==
    /\ m \in MaterialCalls
    /\ materials[m].pc = "create"
    /\ indices' = (materials[m].courseId :> EmptyCourse) @@ indices
    /\ materials' = [materials EXCEPT ![m].pc = "start"]
    /\ UNCHANGED <<proctorVars, mlVars>>

\* line 386
MaterialStart(m) ==
    /\ m \in MaterialCalls
    /\ materials[m].pc = "start"
    /\ materials' = [materials EXCEPT
                        ![m].start_idx = Len(indices[materials[m].courseId].chunks),
                        ![m].pc = "add"]
    /\ UNCHANGED <<indices, proctorVars, mlVars>>

\* line 387
MaterialAdd(m) ==
    /\ m \in MaterialCalls
    /\ materials[m].pc = "add"
    /\ indices' = [indices EXCEPT ![materials[m].courseId].index =
                                       @ \o Encode(materials[m].chunks)]
    /\ materials' = [materials EXCEPT ![m].pc = "append"]
    /\ UNCHANGED <<proctorVars, mlVars>>

\* lines 390-401: one turn of the loop, and the return after the last one
MaterialAppend(m) ==
    /\ m \in MaterialCalls
    /\ materials[m].pc = "append"
    /\ LET i == materials[m].i
           chunk_info == ChunkInfo(materials[m].materialId, materials[m].chunks[i + 1],
                                   materials[m].start_idx + i)
           last == i + 1 = Len(materials[m].chunks)
       IN  /\ indices' = [indices EXCEPT ![materials[m].courseId].chunks =
                                              Append(@, chunk_info)]
           /\ materials' = [materials EXCEPT
                  ![m].i = i + 1,
                  ![m].processed_chunks = Append(@, chunk_info),
                  ![m].pc = IF last THEN "returned" ELSE "append",
                  ![m].message = IF last
                                 THEN "Processed " \o ToString(i + 1) \o " chunks"
                                 ELSE @]
    /\ UNCHANGED <<proctorVars, mlVars>>

NextMaterial ==
    \/ MaterialPost
    \/ \E m \in 1..MaxMaterials : MaterialExtract(m)
    \/ \E m \in 1..MaxMaterials : MaterialCreate(m)
    \/ \E m \in 1..MaxMaterials : MaterialStart(m)
    \/ \E m \in 1..MaxMaterials : MaterialAdd(m)
    \/ \E m \in 1..MaxMaterials : MaterialAppend(m)

SpecMaterial == Init /\ [][NextMaterial]_vars

MaterialsDone == \A m \in MaterialCalls : materials[m].pc = "returned"

\* C16. Once the uploads in flight have all answered, every course's index
\* holds as many vectors as the course has chunks, each chunk's global_idx is
\* its position in the chunk list and the position of its own vector in the
\* index, and no two chunks of the course share an id.
C16_IndexAndChunksAligned ==
    MaterialsDone =>
        \A courseId \in DOMAIN indices :
            LET index == indices[courseId].index
                chunks == indices[courseId].chunks
            IN  /\ Len(index) = Len(chunks)
                /\ \A k \in DOMAIN chunks :
                      /\ chunks[k].global_idx = k - 1
                      /\ index[k] = <<"emb", chunks[k].content>>
                /\ \A j, k \in DOMAIN chunks : j # k => chunks[j].id # chunks[k].id

====
